---- MODULE Spec2Model ----
(***************************************************************************)
(* The bike sharing dashboard (src/dashboard.py and its visualization-only *)
(* variant src/submission/dashboard/dashboard.py) as a state machine.      *)
(* A session is one Streamlit script run after another: the first run      *)
(* with the widgets' defaults, and one rerun of the whole script for every *)
(* change of a sidebar multiselect.  Every run calls load_data(), which is *)
(* memoized by st.cache_data, builds the three selections, filters both    *)
(* tables and renders the metrics and the tabs top to bottom until a       *)
(* statement raises.                                                       *)
(***************************************************************************)
EXTENDS Integers, Sequences, FiniteSets, TLC

VARIABLES
    app,              \* which of the two scripts the session runs
    disk,             \* data/day.csv and data/hour.csv as they are on disk
    cache,            \* the st.cache_data entry of load_data()
    reads,            \* how many times the body of load_data() has run
    lastLoad,         \* how the last load_data() call returned
    year_filter,      \* value of the "Select Year" multiselect
    season_filter,    \* value of the "Select Season" multiselect
    weather_filter,   \* value of the "Select Weather" multiselect
    filtered_day_df,  \* the filtered daily table of the last run
    filtered_hour_df, \* the filtered hourly table of the last run
    out               \* what the last run rendered, and where it stopped

vars == <<app, disk, cache, reads, lastLoad, year_filter, season_filter,
          weather_filter, filtered_day_df, filtered_hour_df, out>>

----------------------------------------------------------------------------
(* Bounds of the model. *)

MaxDayRows == 2
MaxReads == 2

----------------------------------------------------------------------------
(* Values. *)

\* pandas' missing value: the label of an unmapped code, the mean of no rows.
NaN == "nan"

\* A float result: a ratio n/d, or one of IEEE's nan and inf.
Num(n, d) == [k |-> "num", n |-> n, d |-> d]
NaNF == [k |-> "nan", n |-> 0, d |-> 0]
InfF == [k |-> "inf", n |-> 0, d |-> 0]

Apps == {"dashboard", "submission"}

\* The columns of the two files that the scripts read.
DayColumns == {"dteday", "season", "yr", "mnth", "weathersit", "temp", "atemp",
               "hum", "windspeed", "casual", "registered", "cnt"}
HourColumns == {"dteday", "hr", "season", "yr", "weekday", "weathersit",
                "casual", "registered", "cnt"}

----------------------------------------------------------------------------
(* Sequences helpers. *)

RECURSIVE SumSeq(_)
SumSeq(s) == IF s = <<>> THEN 0 ELSE Head(s) + SumSeq(Tail(s))

Column(df, c) == [i \in 1..Len(df) |-> df[i][c]]

Range(s) == {s[i] : i \in 1..Len(s)}

SeqsUpTo(S, n) == UNION {[1..k -> S] : k \in 0..n}

----------------------------------------------------------------------------
(* load_data *)

\* The numbering the "About the Dataset" text gives (1: spring ... 4: winter).
season_map_about_text ==
    (1 :> "Spring" @@ 2 :> "Summer" @@ 3 :> "Fall" @@ 4 :> "Winter")

season_map ==
    (1 :> "Winter" @@ 2 :> "Spring" @@ 3 :> "Summer" @@ 4 :> "Fall")

weather_map ==
    (1 :> "Clear" @@ 2 :> "Mist/Cloudy" @@ 3 :> "Light Rain/Snow"
       @@ 4 :> "Heavy Rain/Snow")

year_map == (0 :> "2011" @@ 1 :> "2012")

\* Series.map(dict): a value that is no key of the dict maps to NaN.
Map(m, x) == IF x \in DOMAIN m THEN m[x] ELSE NaN

\* The weekend under datetime.weekday()'s numbering (Monday 0 ... Sunday 6).
IsWeekendMondayFirst(x) == IF x \in {5, 6} THEN "Weekend" ELSE "Weekday"

\* lambda x: 'Weekend' if x in [0, 6] else 'Weekday'
IsWeekend(x) == IF x \in {0, 6} THEN "Weekend" ELSE "Weekday"

\* A row of day_df after the label columns are added; idx is the row's index
\* label in the DataFrame (read_csv's RangeIndex, from 0).
EnrichDay(raw, i) ==
    [idx |-> i - 1,
     season |-> raw.season, weathersit |-> raw.weathersit, yr |-> raw.yr,
     mnth |-> raw.mnth, dteday |-> raw.dteday,
     casual |-> raw.casual, registered |-> raw.registered, cnt |-> raw.cnt,
     season_label |-> Map(season_map, raw.season),
     weathersit_label |-> Map(weather_map, raw.weathersit),
     yr_label |-> Map(year_map, raw.yr)]

\* hour_df['dteday'] overwritten with the combined date-time instead of a new
\* column taking it.
EnrichHourOverwritingDate(raw, i) ==
    [idx |-> i - 1,
     season |-> raw.season, weathersit |-> raw.weathersit, yr |-> raw.yr,
     hr |-> raw.hr, weekday |-> raw.weekday,
     dteday |-> raw.dteday * 24 + raw.hr,
     datetime |-> raw.dteday * 24 + raw.hr,
     casual |-> raw.casual, registered |-> raw.registered, cnt |-> raw.cnt,
     season_label |-> Map(season_map, raw.season),
     weathersit_label |-> Map(weather_map, raw.weathersit),
     yr_label |-> Map(year_map, raw.yr),
     is_weekend |-> IsWeekend(raw.weekday)]

\* datetime is dteday plus hr hours, counted in hours from 2011-01-01 00:00.
EnrichHour(raw, i) ==
    [idx |-> i - 1,
     season |-> raw.season, weathersit |-> raw.weathersit, yr |-> raw.yr,
     hr |-> raw.hr, weekday |-> raw.weekday,
     dteday |-> raw.dteday,
     datetime |-> raw.dteday * 24 + raw.hr,
     casual |-> raw.casual, registered |-> raw.registered, cnt |-> raw.cnt,
     season_label |-> Map(season_map, raw.season),
     weathersit_label |-> Map(weather_map, raw.weathersit),
     yr_label |-> Map(year_map, raw.yr),
     is_weekend |-> IsWeekend(raw.weekday)]

\* pd.read_csv of one file: the exception it raises, or "none".
ReadError(file) ==
    CASE file.status = "missing" -> "FileNotFoundError"
      [] file.status = "unreadable" -> "PermissionError"
      [] OTHER -> "none"

\* The first statement of load_data's body that raises, as <<exception, what
\* it was reading>>, or <<"none", "">>.  Reading a column the file lacks raises KeyError.
LoadFailure(d) ==
    CASE ReadError(d.day) # "none" -> <<ReadError(d.day), "read day.csv">>
      [] ReadError(d.hour) # "none" -> <<ReadError(d.hour), "read hour.csv">>
      [] "dteday" \notin d.day.cols -> <<"KeyError", "day_df.dteday">>
      [] "dteday" \notin d.hour.cols -> <<"KeyError", "hour_df.dteday">>
      [] "hr" \notin d.hour.cols -> <<"KeyError", "hour_df.hr">>
      [] "season" \notin d.day.cols -> <<"KeyError", "day_df.season">>
      [] "weathersit" \notin d.day.cols -> <<"KeyError", "day_df.weathersit">>
      [] "yr" \notin d.day.cols -> <<"KeyError", "day_df.yr">>
      [] "season" \notin d.hour.cols -> <<"KeyError", "hour_df.season">>
      [] "weathersit" \notin d.hour.cols -> <<"KeyError", "hour_df.weathersit">>
      [] "yr" \notin d.hour.cols -> <<"KeyError", "hour_df.yr">>
      [] "weekday" \notin d.hour.cols -> <<"KeyError", "hour_df.weekday">>
      [] OTHER -> <<"none", "">>

NoTables == [day_df |-> <<>>, hour_df |-> <<>>]

\* The body of load_data(): the two tables, or the exception that ends it.
LoadBody(d) ==
    LET f == LoadFailure(d)
    IN  IF f[1] # "none"
        THEN [error |-> f[1], at |-> f[2], tables |-> NoTables]
        ELSE [error |-> "none", at |-> "",
              tables |->
                [day_df |-> [i \in 1..Len(d.day.rows) |->
                                EnrichDay(d.day.rows[i], i)],
                 hour_df |-> [i \in 1..Len(d.hour.rows) |->
                                EnrichHour(d.hour.rows[i], i)]]]

EmptyCache == [filled |-> FALSE, tables |-> NoTables]

\* @st.cache_data without the memo: the body runs on every call.
CachedLoadNoMemo(c, d, n) ==
    LET r == LoadBody(d)
    IN  [error |-> r.error, at |-> r.at, tables |-> r.tables,
         cache |-> c, reads |-> n + 1,
         how |-> IF r.error = "none" THEN "read" ELSE "failed"]

\* load_data() under @st.cache_data: a hit returns the stored tables and does
\* not run the body; a miss runs it and stores what it returns.  A call that
\* raises stores nothing.
CachedLoad(c, d, n) ==
    IF c.filled
    THEN [error |-> "none", at |-> "", tables |-> c.tables,
          cache |-> c, reads |-> n, how |-> "cached"]
    ELSE LET r == LoadBody(d)
         IN  [error |-> r.error, at |-> r.at, tables |-> r.tables,
              cache |-> IF r.error = "none"
                        THEN [filled |-> TRUE, tables |-> r.tables]
                        ELSE c,
              reads |-> n + 1,
              how |-> IF r.error = "none" THEN "read" ELSE "failed"]

----------------------------------------------------------------------------
(* Sidebar and filter *)

\* Series.unique(): the distinct values of a column, NaN among them.
Unique(df, c) == {df[i][c] : i \in 1..Len(df)}

\* An empty selection read as "no filter on this dimension".
IsinOrNoSelection(v, values) == values = {} \/ v \in values

\* Series.isin(values): membership; pandas counts NaN as a member of a list
\* that holds NaN.
Isin(v, values) == v \in values

\* The mask without its season term.
ApplyWithoutSeason(df, years, seasons, weathers) ==
    SelectSeq(df, LAMBDA r: /\ r.yr_label \in years
                            /\ r.weathersit_label \in weathers)

\* The three terms joined by | instead of &.
ApplyAnyTerm(df, years, seasons, weathers) ==
    SelectSeq(df, LAMBDA r: \/ r.yr_label \in years
                            \/ r.season_label \in seasons
                            \/ r.weathersit_label \in weathers)

\* The mask applied by position, one row late: the first kept row is lost.
ApplyShifted(df, years, seasons, weathers) ==
    LET kept == SelectSeq(df, LAMBDA r: /\ r.yr_label \in years
                                        /\ r.season_label \in seasons
                                        /\ r.weathersit_label \in weathers)
    IN  IF kept = <<>> THEN kept ELSE Tail(kept)

\* df[mask]: the rows whose mask is True, in order, each with its index label.
Apply(df, years, seasons, weathers) ==
    SelectSeq(df, LAMBDA r: /\ Isin(r.yr_label, years)
                            /\ Isin(r.season_label, seasons)
                            /\ Isin(r.weathersit_label, weathers))

----------------------------------------------------------------------------
(* Aggregations *)

\* Series.sum() / Series.mean() of an integer column: the mean of no rows is NaN.
Sum(df, c) == SumSeq(Column(df, c))

Mean(df, c) == IF df = <<>> THEN NaNF ELSE Num(Sum(df, c), Len(df))

\* numpy scalar division a / b * 100: 0/0 is nan and x/0 is inf, with a
\* RuntimeWarning and no exception.
Percentage(a, b) ==
    IF b = 0 THEN (IF a = 0 THEN NaNF ELSE InfF) ELSE Num(a * 100, b)

\* groupby sorts its keys: the label columns lexicographically, the integer
\* columns numerically.  NaN keys are dropped (dropna=True).
SortedWeather == <<"Clear", "Heavy Rain/Snow", "Light Rain/Snow", "Mist/Cloudy">>
SortedSeason == <<"Fall", "Spring", "Summer", "Winter">>
SortedYear == <<"2011", "2012">>
SortedDayType == <<"Weekday", "Weekend">>

Index(order, v) == CHOOSE i \in 1..Len(order) : order[i] = v

\* The position of value v of column c in the sort order of that column.
Rank(c, v) ==
    CASE c = "weathersit_label" -> Index(SortedWeather, v)
      [] c = "season_label" -> Index(SortedSeason, v)
      [] c = "yr_label" -> Index(SortedYear, v)
      [] c = "is_weekend" -> Index(SortedDayType, v)
      [] OTHER -> v

\* Key tuple j before key tuple k, for the grouping columns cs: lexicographic.
KeyBefore(cs, j, k) ==
    \E p \in 1..Len(cs) :
        /\ Rank(cs[p], j[p]) < Rank(cs[p], k[p])
        /\ \A q \in 1..(p - 1) : j[q] = k[q]

RECURSIVE SortKeys(_, _)
SortKeys(cs, K) ==
    IF K = {} THEN <<>>
    ELSE LET m == CHOOSE j \in K : \A k \in K \ {j} : KeyBefore(cs, j, k)
         IN  <<m>> \o SortKeys(cs, K \ {m})

KeyOf(r, cs) == [p \in 1..Len(cs) |-> r[cs[p]]]

\* The columns that Series.map filled: the ones that can hold NaN.
LabelColumns == {"season_label", "weathersit_label", "yr_label"}

IsNa(r, c) == c \in LabelColumns /\ r[c] = NaN

\* df.groupby(cs): the key tuples of the rows with no NaN in them, sorted.
GroupKeys(df, cs) ==
    SortKeys(cs, {KeyOf(df[i], cs) : i \in
                    {i \in 1..Len(df) : \A p \in 1..Len(cs) : ~IsNa(df[i], cs[p])}})

\* The rows of one group.
Group(df, cs, k) == SelectSeq(df, LAMBDA r: KeyOf(r, cs) = k)

\* .agg(['sum', 'count']) shown under the mean's name.
WeatherAnalysisSum(fday) ==
    LET cs == <<"weathersit_label">>
        ks == GroupKeys(fday, cs)
    IN  [i \in 1..Len(ks) |->
            [weathersit_label |-> ks[i][1],
             mean |-> Num(Sum(Group(fday, cs, ks[i]), "cnt"), 1),
             count |-> Len(Group(fday, cs, ks[i]))]]

\* filtered_day_df.groupby('weathersit_label')['cnt'].agg(['mean', 'count'])
WeatherAnalysis(fday) ==
    LET cs == <<"weathersit_label">>
        ks == GroupKeys(fday, cs)
    IN  [i \in 1..Len(ks) |->
            [weathersit_label |-> ks[i][1],
             mean |-> Mean(Group(fday, cs, ks[i]), "cnt"),
             count |-> Len(Group(fday, cs, ks[i]))]]

\* filtered_day_df.groupby(['season_label', 'weathersit_label'])['cnt'].mean()
SeasonalWeather(fday) ==
    LET cs == <<"season_label", "weathersit_label">>
        ks == GroupKeys(fday, cs)
    IN  [i \in 1..Len(ks) |->
            [season_label |-> ks[i][1], weathersit_label |-> ks[i][2],
             cnt |-> Mean(Group(fday, cs, ks[i]), "cnt")]]

\* filtered_hour_df.groupby(['hr', 'is_weekend'])['cnt'].mean()
HourlyPattern(fhour) ==
    LET cs == <<"hr", "is_weekend">>
        ks == GroupKeys(fhour, cs)
    IN  [i \in 1..Len(ks) |->
            [hr |-> ks[i][1], is_weekend |-> ks[i][2],
             cnt |-> Mean(Group(fhour, cs, ks[i]), "cnt")]]

\* filtered_hour_df.groupby(['hr', 'is_weekend'])[['casual', 'registered']].mean()
HourlyUser(fhour) ==
    LET cs == <<"hr", "is_weekend">>
        ks == GroupKeys(fhour, cs)
    IN  [i \in 1..Len(ks) |->
            [hr |-> ks[i][1], is_weekend |-> ks[i][2],
             casual |-> Mean(Group(fhour, cs, ks[i]), "casual"),
             registered |-> Mean(Group(fhour, cs, ks[i]), "registered")]]

\* filtered_day_df.groupby(['mnth', 'yr_label'])['cnt'].mean()
MonthlyTrends(fday) ==
    LET cs == <<"mnth", "yr_label">>
        ks == GroupKeys(fday, cs)
    IN  [i \in 1..Len(ks) |->
            [mnth |-> ks[i][1], yr_label |-> ks[i][2],
             cnt |-> Mean(Group(fday, cs, ks[i]), "cnt")]]

\* filtered_day_df.groupby('yr_label')['cnt'].mean(): the years it has a mean for
YearlyAvgIndex(fday) == {k[1] : k \in Range(GroupKeys(fday, <<"yr_label">>))}

\* filtered_day_df.groupby('season_label')[['casual', 'registered', 'cnt']].mean()
SeasonalUser(fday) ==
    LET cs == <<"season_label">>
        ks == GroupKeys(fday, cs)
    IN  [i \in 1..Len(ks) |->
            [season_label |-> ks[i][1],
             casual |-> Mean(Group(fday, cs, ks[i]), "casual"),
             registered |-> Mean(Group(fday, cs, ks[i]), "registered"),
             cnt |-> Mean(Group(fday, cs, ks[i]), "cnt")]]

----------------------------------------------------------------------------
(* The charts' category axes *)

\* category_orders={"season_label": [...]} of the two season bar charts.
category_orders == <<"Winter", "Spring", "Summer", "Fall">>

\* The distinct values of a column in the order the rows first show them.
RECURSIVE FirstAppearance(_)
FirstAppearance(s) ==
    IF s = <<>> THEN <<>>
    ELSE LET rest == FirstAppearance(SelectSeq(Tail(s), LAMBDA v: v # Head(s)))
         IN  <<Head(s)>> \o rest

\* A categorical x axis without category_orders: the categories as the rows
\* of the plotted table first show them.
AxisCategoriesOfData(xs, order) == FirstAppearance(xs)

\* The categorical x axis px.bar draws for the values xs under
\* category_orders: the listed categories that occur, in the listed order,
\* then the unlisted ones as the rows first show them.
AxisCategories(xs, order) ==
    SelectSeq(order, LAMBDA c: c \in Range(xs))
        \o SelectSeq(FirstAppearance(xs), LAMBDA c: c \notin Range(order))

\* The x axis of "Average Bike Rentals by Season and Weather".
SeasonalWeatherAxis(sw) ==
    AxisCategories(Column(sw, "season_label"), category_orders)

\* The x axis of "Average Seasonal Bike Rentals by User Type": pd.melt stacks
\* the table once per user type, in the table's row order.
SeasonalUserAxis(su) ==
    AxisCategories(Column(su, "season_label") \o Column(su, "season_label"),
                   category_orders)

----------------------------------------------------------------------------
(* One render: the statements after the filter, top to bottom *)

\* df[c] for every c of needed: KeyError when the table lacks one of them.
Req(cols, needed) == IF needed \subseteq cols THEN "none" ELSE "KeyError"

\* The statements that only src/dashboard.py has: the values picked out of the
\* aggregates for the observations under the charts.
NarrativeSteps == {"weather_notes", "best_season", "weekday_peak",
                   "weekend_peak", "growth", "seasonal_variation"}

corr_vars == {"temp", "atemp", "hum", "windspeed", "casual", "registered", "cnt"}

\* weather_analysis.loc[weather_analysis['weathersit_label'] == w, 'mean'].values[0]:
\* IndexError when no group has the label.
PickWeather(wa, labels) ==
    IF labels \subseteq {wa[i].weathersit_label : i \in 1..Len(wa)}
    THEN "none" ELSE "IndexError"

\* seasonal_weather.loc[seasonal_weather['cnt'].idxmax()]: ValueError on no rows.
BestSeason(sw) == IF sw = <<>> THEN "ValueError" ELSE "none"

\* hourly_pattern[hourly_pattern['is_weekend'] == t].sort_values(...).iloc[0]:
\* IndexError when no group is of that day type.
Peak(hp, t) ==
    IF \E i \in 1..Len(hp) : hp[i].is_weekend = t THEN "none" ELSE "IndexError"

\* yearly_avg['2012'], yearly_avg['2011'], read only when both years are
\* selected: KeyError when the filtered rows have none of that year.
Growth(fday, years) ==
    IF {"2011", "2012"} \subseteq years
         /\ ~({"2011", "2012"} \subseteq YearlyAvgIndex(fday))
    THEN "KeyError" ELSE "none"

\* Every statement of the render that can raise, in script order, with the
\* exception it raises on these tables ("none" when it completes).
AllSteps(dcols, hcols, fday, wa, sw, hp, years) ==
    << <<"total_rentals", Req(dcols, {"cnt"})>>,
       <<"avg_daily_rentals", Req(dcols, {"cnt"})>>,
       <<"casual_percentage", Req(dcols, {"casual"})>>,
       <<"registered_percentage", Req(dcols, {"registered"})>>,
       <<"weather_analysis", Req(dcols, {"cnt"})>>,
       <<"weather_notes", PickWeather(wa, {"Clear", "Mist/Cloudy"})>>,
       <<"seasonal_weather", Req(dcols, {"cnt"})>>,
       <<"best_season", BestSeason(sw)>>,
       <<"hourly_pattern", Req(hcols, {"cnt"})>>,
       <<"weekday_peak", Peak(hp, "Weekday")>>,
       <<"weekend_peak", Peak(hp, "Weekend")>>,
       <<"hourly_user", Req(hcols, {"casual", "registered"})>>,
       <<"monthly_trends", Req(dcols, {"mnth", "cnt"})>>,
       <<"growth", Growth(fday, years)>>,
       <<"seasonal_user", Req(dcols, {"casual", "registered", "cnt"})>>,
       <<"seasonal_variation", "none">>,
       <<"correlation", Req(dcols, corr_vars)>> >>

\* The statements of script a.
Steps(a, dcols, hcols, fday, wa, sw, hp, years) ==
    SelectSeq(AllSteps(dcols, hcols, fday, wa, sw, hp, years),
              LAMBDA st: a = "dashboard" \/ st[1] \notin NarrativeSteps)

\* Index of the first statement that raises; Len + 1 when none does.
FirstRaise(steps) ==
    IF \E i \in 1..Len(steps) : steps[i][2] # "none"
    THEN CHOOSE i \in 1..Len(steps) :
            /\ steps[i][2] # "none"
            /\ \A j \in 1..(i - 1) : steps[j][2] = "none"
    ELSE Len(steps) + 1

Unset == [k |-> "unset", n |-> 0, d |-> 0]

\* What a run leaves on the page when load_data() raises: nothing.
LoadFailed(error, at) ==
    [phase |-> "ran", error |-> error, at |-> at, widgets |-> FALSE,
     done |-> {},
     total_rentals |-> 0, avg_daily_rentals |-> Unset,
     casual_percentage |-> Unset, registered_percentage |-> Unset,
     weather_analysis |-> <<>>, seasonal_weather |-> <<>>,
     hourly_pattern |-> <<>>, hourly_user |-> <<>>,
     monthly_trends |-> <<>>, seasonal_user |-> <<>>]

NotRun == [LoadFailed("none", "") EXCEPT !.phase = "start"]

\* The render of script a over the filtered tables: every statement up to the
\* first that raises has produced its value; the exception ends the run.
Render(a, dcols, hcols, fday, fhour, years) ==
    LET wa == WeatherAnalysis(fday)
        sw == SeasonalWeather(fday)
        hp == HourlyPattern(fhour)
        steps == Steps(a, dcols, hcols, fday, wa, sw, hp, years)
        f == FirstRaise(steps)
        done == {steps[i][1] : i \in 1..(f - 1)}
        Float(name, v) == IF name \in done THEN v ELSE Unset
        Table(name, v) == IF name \in done THEN v ELSE <<>>
    IN  [phase |-> "ran",
         error |-> IF f > Len(steps) THEN "none" ELSE steps[f][2],
         at |-> IF f > Len(steps) THEN "" ELSE steps[f][1],
         widgets |-> TRUE,
         done |-> done,
         total_rentals |->
             IF "total_rentals" \in done THEN Sum(fday, "cnt") ELSE 0,
         avg_daily_rentals |-> Float("avg_daily_rentals", Mean(fday, "cnt")),
         casual_percentage |->
             Float("casual_percentage",
                   Percentage(Sum(fday, "casual"), Sum(fday, "cnt"))),
         registered_percentage |->
             Float("registered_percentage",
                   Percentage(Sum(fday, "registered"), Sum(fday, "cnt"))),
         weather_analysis |-> Table("weather_analysis", wa),
         seasonal_weather |-> Table("seasonal_weather", sw),
         hourly_pattern |-> Table("hourly_pattern", hp),
         hourly_user |-> Table("hourly_user", HourlyUser(fhour)),
         monthly_trends |-> Table("monthly_trends", MonthlyTrends(fday)),
         seasonal_user |-> Table("seasonal_user", SeasonalUser(fday))]

----------------------------------------------------------------------------
(* One script run *)

\* The script with the mask applied in place to the object the cache holds
\* (day_df.drop(day_df[~mask].index, inplace=True) on a shared object): the
\* stored tables become the filtered ones.
ScriptFilteringInPlace(first, ys, ss, ws) ==
    LET L == CachedLoad(cache, disk, reads)
        years == IF first THEN Unique(L.tables.day_df, "yr_label") ELSE ys
        seasons == IF first THEN Unique(L.tables.day_df, "season_label") ELSE ss
        weathers == IF first THEN Unique(L.tables.day_df, "weathersit_label")
                    ELSE ws
        fday == Apply(L.tables.day_df, years, seasons, weathers)
        fhour == Apply(L.tables.hour_df, years, seasons, weathers)
    IN  /\ reads' = L.reads
        /\ lastLoad' = L.how
        /\ UNCHANGED <<app, disk>>
        /\ IF L.error # "none"
           THEN /\ cache' = L.cache
                /\ out' = LoadFailed(L.error, L.at)
                /\ UNCHANGED <<year_filter, season_filter, weather_filter,
                               filtered_day_df, filtered_hour_df>>
           ELSE /\ cache' = [filled |-> TRUE,
                             tables |-> [day_df |-> fday, hour_df |-> fhour]]
                /\ year_filter' = years
                /\ season_filter' = seasons
                /\ weather_filter' = weathers
                /\ filtered_day_df' = fday
                /\ filtered_hour_df' = fhour
                /\ out' = Render(app, disk.day.cols, disk.hour.cols,
                                 fday, fhour, years)

\* The script narrowing the tables of the previous run instead of filtering
\* the base tables: rows dropped by an earlier selection stay dropped.
ScriptFilteringPrevious(first, ys, ss, ws) ==
    LET L == CachedLoad(cache, disk, reads)
        years == IF first THEN Unique(L.tables.day_df, "yr_label") ELSE ys
        seasons == IF first THEN Unique(L.tables.day_df, "season_label") ELSE ss
        weathers == IF first THEN Unique(L.tables.day_df, "weathersit_label")
                    ELSE ws
        fday == Apply(IF first THEN L.tables.day_df ELSE filtered_day_df,
                      years, seasons, weathers)
        fhour == Apply(IF first THEN L.tables.hour_df ELSE filtered_hour_df,
                       years, seasons, weathers)
    IN  /\ cache' = L.cache
        /\ reads' = L.reads
        /\ lastLoad' = L.how
        /\ UNCHANGED <<app, disk>>
        /\ IF L.error # "none"
           THEN /\ out' = LoadFailed(L.error, L.at)
                /\ UNCHANGED <<year_filter, season_filter, weather_filter,
                               filtered_day_df, filtered_hour_df>>
           ELSE /\ year_filter' = years
                /\ season_filter' = seasons
                /\ weather_filter' = weathers
                /\ filtered_day_df' = fday
                /\ filtered_hour_df' = fhour
                /\ out' = Render(app, disk.day.cols, disk.hour.cols,
                                 fday, fhour, years)

\* The whole script with the widget values ys, ss, ws (first = TRUE: the
\* widgets have no value yet and take their defaults, every option).
Script(first, ys, ss, ws) ==
    LET L == CachedLoad(cache, disk, reads)
        day_df == L.tables.day_df
        hour_df == L.tables.hour_df
        years == IF first THEN Unique(day_df, "yr_label") ELSE ys
        seasons == IF first THEN Unique(day_df, "season_label") ELSE ss
        weathers == IF first THEN Unique(day_df, "weathersit_label") ELSE ws
        fday == Apply(day_df, years, seasons, weathers)
        fhour == Apply(hour_df, years, seasons, weathers)
    IN  /\ cache' = L.cache
        /\ reads' = L.reads
        /\ lastLoad' = L.how
        /\ UNCHANGED <<app, disk>>
        /\ IF L.error # "none"
           THEN /\ out' = LoadFailed(L.error, L.at)
                /\ UNCHANGED <<year_filter, season_filter, weather_filter,
                               filtered_day_df, filtered_hour_df>>
           ELSE /\ year_filter' = years
                /\ season_filter' = seasons
                /\ weather_filter' = weathers
                /\ filtered_day_df' = fday
                /\ filtered_hour_df' = fhour
                /\ out' = Render(app, disk.day.cols, disk.hour.cols,
                                 fday, fhour, years)

\* The session's first run of the script.
FirstRun ==
    /\ out.phase = "start"
    /\ Script(TRUE, {}, {}, {})

\* The options the sidebar offers: the distinct labels of the daily table.
YearOptions == Unique(cache.tables.day_df, "yr_label")
SeasonOptions == Unique(cache.tables.day_df, "season_label")
WeatherOptions == Unique(cache.tables.day_df, "weathersit_label")

\* What one interaction with a multiselect can turn its value into: one
\* option added, one option removed, or every option removed (clear all).
Edits(current, options) ==
    ({current \cup {o} : o \in options} \cup {current \ {o} : o \in current}
        \cup {{}}) \ {current}

\* The user changes one multiselect: Streamlit reruns the script.  The
\* widgets exist only when the last run got past load_data().  MaxReads caps
\* the read counter.
ChangeYear(S) ==
    /\ out.widgets
    /\ reads < MaxReads
    /\ S \in Edits(year_filter, YearOptions)
    /\ Script(FALSE, S, season_filter, weather_filter)

ChangeSeason(S) ==
    /\ out.widgets
    /\ reads < MaxReads
    /\ S \in Edits(season_filter, SeasonOptions)
    /\ Script(FALSE, year_filter, S, weather_filter)

ChangeWeather(S) ==
    /\ out.widgets
    /\ reads < MaxReads
    /\ S \in Edits(weather_filter, WeatherOptions)
    /\ Script(FALSE, year_filter, season_filter, S)

----------------------------------------------------------------------------
(* The files on disk *)

\* dteday is the date as to_datetime parsed it, counted in days from
\* 2011-01-01, the first date of the dataset.
DayRow(v) ==
    [season |-> v[1], weathersit |-> v[2], yr |-> v[3], mnth |-> v[4],
     casual |-> v[5], registered |-> v[6], cnt |-> v[5] + v[6],
     dteday |-> v[7]]

HourRow(v) ==
    [season |-> v[1], weathersit |-> v[2], yr |-> v[3], hr |-> v[4],
     weekday |-> v[5],
     casual |-> v[6], registered |-> v[7], cnt |-> v[6] + v[7],
     dteday |-> v[8]]

\* Rows of day.csv as <<season, weathersit, yr, mnth, casual, registered,
\* dteday>>:
\* a clear winter day of 2011, a misty fall day of 2012, and a day whose three
\* codes are outside the maps.
DayValues ==
    {<<1, 1, 0, 1, 1, 2, 0>>, <<4, 2, 1, 12, 0, 4, 700>>,
     <<5, 5, 2, 7, 2, 5, 1277>>}

DayRowPool == {DayRow(v) : v \in DayValues}

\* Rows of hour.csv as <<season, weathersit, yr, hr, weekday, casual,
\* registered, dteday>>: the same hour of a Wednesday and of a Sunday, an hour of
\* weathersit 4 (which occurs in hourly rows only), and an hour whose three
\* codes are outside the maps.
WednesdayHour == HourRow(<<1, 1, 0, 8, 3, 1, 2, 4>>)
SundayHour == HourRow(<<1, 1, 0, 8, 0, 2, 2, 1>>)
HeavyRainHour == HourRow(<<4, 4, 1, 17, 6, 0, 1, 700>>)
UnmappedHour == HourRow(<<5, 5, 2, 23, 1, 1, 1, 1276>>)

\* The contents of hour.csv the sessions start from.
HourTables ==
    {<<>>,
     <<WednesdayHour>>,
     <<HeavyRainHour>>,
     <<WednesdayHour, SundayHour>>,
     <<WednesdayHour, HeavyRainHour>>,
     <<UnmappedHour, SundayHour>>,
     <<SundayHour, WednesdayHour, HeavyRainHour>>,
     <<WednesdayHour, UnmappedHour, SundayHour, HeavyRainHour>>}

File(status, cols, rows) == [status |-> status, cols |-> cols, rows |-> rows]

\* Both files present with every column.
HealthyDisks ==
    {[day |-> File("ok", DayColumns, d), hour |-> File("ok", HourColumns, h)] :
        d \in SeqsUpTo(DayRowPool, MaxDayRows), h \in HourTables}

FaultRowsDay == <<DayRow(<<1, 1, 0, 1, 1, 2, 0>>)>>
FaultRowsHour == <<WednesdayHour>>

\* One file missing or unreadable, or one file without one of its columns.
FaultyDisks ==
    {[day |-> File(s, DayColumns, FaultRowsDay),
      hour |-> File("ok", HourColumns, FaultRowsHour)] :
        s \in {"missing", "unreadable"}}
    \cup
    {[day |-> File("ok", DayColumns, FaultRowsDay),
      hour |-> File(s, HourColumns, FaultRowsHour)] :
        s \in {"missing", "unreadable"}}
    \cup
    {[day |-> File("ok", DayColumns \ {c}, FaultRowsDay),
      hour |-> File("ok", HourColumns, FaultRowsHour)] : c \in DayColumns}
    \cup
    {[day |-> File("ok", DayColumns, FaultRowsDay),
      hour |-> File("ok", HourColumns \ {c}, FaultRowsHour)] : c \in HourColumns}

----------------------------------------------------------------------------
(* The session *)

InitWith(disks) ==
    /\ app \in Apps
    /\ disk \in disks
    /\ cache = EmptyCache
    /\ reads = 0
    /\ lastLoad = "none"
    /\ year_filter = {}
    /\ season_filter = {}
    /\ weather_filter = {}
    /\ filtered_day_df = <<>>
    /\ filtered_hour_df = <<>>
    /\ out = NotRun

Init == InitWith(HealthyDisks \cup FaultyDisks)

Next ==
    \/ FirstRun
    \/ \E S \in Edits(year_filter, YearOptions) : ChangeYear(S)
    \/ \E S \in Edits(season_filter, SeasonOptions) : ChangeSeason(S)
    \/ \E S \in Edits(weather_filter, WeatherOptions) : ChangeWeather(S)

Spec == Init /\ [][Next]_vars

----------------------------------------------------------------------------
(* A second set of input files: one row per table, over every code in and  *)
(* around the domains of the three maps.                                   *)

MaxCode == 5

CodeRange == (0 - 1)..MaxCode

EnrichDisks ==
    {[day |-> File("ok", DayColumns, <<DayRow(<<s, w, y, 1, 1, 2, 0>>)>>),
      hour |-> File("ok", HourColumns, <<HourRow(<<s, w, y, 8, 3, 1, 2, 4>>)>>)] :
        s \in CodeRange, w \in CodeRange, y \in CodeRange}

InitEnrich == InitWith(EnrichDisks)

SpecEnrich == InitEnrich /\ [][Next]_vars

----------------------------------------------------------------------------
(* A third set of input files, for the aggregate views: daily rows of all   *)
(* four seasons in months out of calendar order, of both years, with two    *)
(* rows of one weather label, and one hourly row for every weekday code.    *)

MaxWeekday == 6

\* Daily rows as <<season, weathersit, yr, mnth, casual, registered, dteday>>.
JanClear == DayRow(<<1, 1, 0, 1, 40, 60, 0>>)
AprMist == DayRow(<<2, 2, 0, 4, 10, 20, 90>>)
MayUnmapped == DayRow(<<2, 5, 0, 5, 1, 1, 120>>)
JulClear == DayRow(<<3, 1, 1, 7, 30, 50, 547>>)
NovRain == DayRow(<<4, 3, 1, 11, 5, 15, 670>>)
DecMist == DayRow(<<1, 2, 1, 12, 2, 4, 700>>)

ViewDayTables ==
    {<<JanClear>>,
     <<NovRain, JulClear, AprMist, JanClear>>,
     <<JanClear, JulClear, AprMist>>,
     <<JanClear, MayUnmapped, DecMist>>}

\* hour.csv with one 08:00 row for every weekday code from 0, on a date of
\* that weekday (2011-01-01 was a Saturday, code 6), the years alternating.
ViewHourTable ==
    [i \in 1..(MaxWeekday + 1) |->
        HourRow(<<1, 1, (i - 1) % 2, 8, i - 1, 1, 2, i % 7>>)]

ViewDisks ==
    {[day |-> File("ok", DayColumns, d),
      hour |-> File("ok", HourColumns, ViewHourTable)] : d \in ViewDayTables}

InitViews == InitWith(ViewDisks)

SpecViews == InitViews /\ [][Next]_vars

----------------------------------------------------------------------------
(* Properties *)

day_df == cache.tables.day_df
hour_df == cache.tables.hour_df

\* Both files are present, readable and have every column.
Healthy ==
    /\ disk.day.status = "ok" /\ disk.day.cols = DayColumns
    /\ disk.hour.status = "ok" /\ disk.hour.cols = HourColumns

\* The last run got past load_data() and the filter.
Filtered == out.phase = "ran" /\ out.widgets

Selected(r) ==
    /\ r.yr_label \in year_filter
    /\ r.season_label \in season_filter
    /\ r.weathersit_label \in weather_filter

\* C1: in both tables a row is kept if and only if its year label is in the
\* selected years, its season label in the selected seasons and its weather
\* label in the selected weather conditions; nothing else decides it.
C1_FilterPredicate ==
    Filtered =>
        /\ \A i \in 1..Len(day_df) :
              (day_df[i] \in Range(filtered_day_df)) <=> Selected(day_df[i])
        /\ \A i \in 1..Len(hour_df) :
              (hour_df[i] \in Range(filtered_hour_df)) <=> Selected(hour_df[i])

\* Two hourly rows with the same labels and different weekday and counts are
\* both kept, while one daily row is kept and another is dropped.
C1_Witness ==
    /\ Filtered
    /\ Len(hour_df) = 2 /\ Len(filtered_hour_df) = 2
    /\ hour_df[1].weekday # hour_df[2].weekday
    /\ hour_df[1].cnt # hour_df[2].cnt
    /\ Len(day_df) = 2 /\ Len(filtered_day_df) = 1

\* C2: with an empty weather selection over tables that have rows, every view
\* and every summary metric completes with its sentinel (empty table, zero
\* sum, NaN); no statement of the render raises.
C2_ZeroRowRenderCompletes ==
    (Filtered /\ Healthy /\ day_df # <<>> /\ hour_df # <<>>
       /\ year_filter # {} /\ season_filter # {} /\ weather_filter = {}) =>
        /\ out.error = "none"
        /\ out.total_rentals = 0
        /\ out.avg_daily_rentals = NaNF
        /\ out.casual_percentage = NaNF
        /\ out.registered_percentage = NaNF
        /\ out.weather_analysis = <<>>
        /\ out.seasonal_weather = <<>>
        /\ out.hourly_pattern = <<>>

\* C3: when one of the three selections is empty, both filtered tables have
\* no rows, whatever the other two selections hold.
C3_EmptySelectionEmptyResult ==
    (Filtered /\ (year_filter = {} \/ season_filter = {} \/ weather_filter = {}))
        => (filtered_day_df = <<>> /\ filtered_hour_df = <<>>)

\* Only the year selection is empty; the tables have rows that the other two
\* selections would keep.
C3_Witness ==
    /\ Filtered
    /\ year_filter = {}
    /\ \E i \in 1..Len(day_df) :
          day_df[i].season_label \in season_filter
          /\ day_df[i].weathersit_label \in weather_filter
    /\ \E i \in 1..Len(hour_df) :
          hour_df[i].season_label \in season_filter
          /\ hour_df[i].weathersit_label \in weather_filter

\* C4: over the runs of a session the body of load_data() runs at most once;
\* a call that is answered from the cache leaves the count at one and returns
\* the tables the first call built from the files.
C4_LoadedAtMostOnce ==
    /\ reads <= 1
    /\ lastLoad = "cached" => (reads = 1 /\ cache.filled
                                 /\ cache.tables = LoadBody(disk).tables)

\* A rerun after a filter change was answered from the cache.
C4_Witness ==
    /\ lastLoad = "cached"
    /\ reads = 1
    /\ day_df # <<>>
    /\ year_filter # Unique(day_df, "yr_label")

\* C5: when a file is missing or unreadable or lacks a column, load fails
\* with DataLoadError, yields no tables and leaves no view on the page.
C5_LoadFailsWithDataLoadError ==
    (out.phase = "ran" /\ ~Healthy) =>
        /\ out.error = "DataLoadError"
        /\ ~cache.filled
        /\ ~out.widgets
        /\ out.done = {}

\* C6: a row with a null season, weather or year label is in no filtered
\* table, under the default selection and under every other one.
C6_NullLabelRowsExcluded ==
    Filtered =>
        /\ \A i \in 1..Len(filtered_day_df) :
              /\ filtered_day_df[i].season_label # NaN
              /\ filtered_day_df[i].weathersit_label # NaN
              /\ filtered_day_df[i].yr_label # NaN
        /\ \A i \in 1..Len(filtered_hour_df) :
              /\ filtered_hour_df[i].season_label # NaN
              /\ filtered_hour_df[i].weathersit_label # NaN
              /\ filtered_hour_df[i].yr_label # NaN

Labelled(r) ==
    /\ r.season_label = (CASE r.season = 1 -> "Winter" [] r.season = 2 -> "Spring"
                           [] r.season = 3 -> "Summer" [] r.season = 4 -> "Fall"
                           [] OTHER -> NaN)
    /\ r.weathersit_label =
          (CASE r.weathersit = 1 -> "Clear" [] r.weathersit = 2 -> "Mist/Cloudy"
             [] r.weathersit = 3 -> "Light Rain/Snow"
             [] r.weathersit = 4 -> "Heavy Rain/Snow"
             [] OTHER -> NaN)
    /\ r.yr_label = (CASE r.yr = 0 -> "2011" [] r.yr = 1 -> "2012" [] OTHER -> NaN)

C8_DefaultSelectsAllOfBothTables ==
    (Filtered /\ lastLoad = "read" /\ day_df # <<>> /\ hour_df # <<>>) =>
        /\ year_filter = Unique(day_df, "yr_label") \cup Unique(hour_df, "yr_label")
        /\ season_filter =
              Unique(day_df, "season_label") \cup Unique(hour_df, "season_label")
        /\ weather_filter =
              Unique(day_df, "weathersit_label")
                 \cup Unique(hour_df, "weathersit_label")
        /\ filtered_day_df = day_df
        /\ filtered_hour_df = hour_df

\* df is made of rows of base, each at most once and in base's order, and
\* every one of them is selected.
SubTable(df, base) ==
    /\ \A j \in 1..Len(df) :
          /\ df[j].idx + 1 \in 1..Len(base)
          /\ base[df[j].idx + 1] = df[j]
          /\ Selected(df[j])
    /\ \A j \in 1..(Len(df) - 1) : df[j].idx < df[j + 1].idx

\* C9: every filtered row is a row of the unfiltered table, unchanged and not
\* repeated, and its three labels are in the three selections.
C9_FilteredIsSubset ==
    Filtered => (SubTable(filtered_day_df, day_df)
                   /\ SubTable(filtered_hour_df, hour_df))

\* The filter dropped the first daily row and kept the second.
C9_Witness ==
    /\ Filtered
    /\ Len(day_df) = 2
    /\ Len(filtered_day_df) = 1
    /\ filtered_day_df[1].idx = 1
    /\ filtered_hour_df # <<>>

\* C10: filtering the filtered table again with the same selection gives the
\* same rows.
C10_Idempotent ==
    Filtered =>
        /\ Apply(filtered_day_df, year_filter, season_filter, weather_filter)
              = filtered_day_df
        /\ Apply(filtered_hour_df, year_filter, season_filter, weather_filter)
              = filtered_hour_df

\* Both filtered tables have rows, and fewer than their unfiltered tables.
C10_Witness ==
    /\ Filtered
    /\ filtered_day_df # <<>> /\ Len(filtered_day_df) < Len(day_df)
    /\ filtered_hour_df # <<>> /\ Len(filtered_hour_df) < Len(hour_df)

\* C11: after every run of the script, whatever the filter changes, the
\* aggregations and the metrics before it, the base tables the loader holds
\* are row for row what load_data() built from the files.
C11_BaseTablesNeverMutated ==
    cache.filled =>
        /\ day_df = [i \in 1..Len(disk.day.rows) |->
                        EnrichDay(disk.day.rows[i], i)]
        /\ hour_df = [i \in 1..Len(disk.hour.rows) |->
                         EnrichHour(disk.hour.rows[i], i)]

\* A rerun that dropped rows of both tables rendered every view to the end.
C11_Witness ==
    /\ Filtered
    /\ lastLoad = "cached"
    /\ out.error = "none"
    /\ "correlation" \in out.done
    /\ Len(filtered_day_df) < Len(day_df)
    /\ Len(filtered_hour_df) < Len(hour_df)
    /\ out.weather_analysis # <<>>

\* C12: after any sequence of filter changes the two filtered tables and
\* everything the last run rendered are what the base tables give under the
\* current selection alone, the same selection for both tables; nothing of
\* an earlier selection or an earlier run is left in them.
C12_RenderOfLatestSelectionOnly ==
    Filtered =>
        LET fday == Apply(day_df, year_filter, season_filter, weather_filter)
            fhour == Apply(hour_df, year_filter, season_filter, weather_filter)
        IN  /\ filtered_day_df = fday
            /\ filtered_hour_df = fhour
            /\ out = Render(app, disk.day.cols, disk.hour.cols, fday, fhour,
                            year_filter)

\* The selection is back at every option after at least two changes, the
\* first of which dropped rows: both tables are whole again.
C12_Witness ==
    /\ Filtered
    /\ lastLoad = "cached"
    /\ Len(day_df) = 2 /\ Len(hour_df) > 1
    /\ year_filter = Unique(day_df, "yr_label")
    /\ season_filter = Unique(day_df, "season_label")
    /\ weather_filter = Unique(day_df, "weathersit_label")
    /\ filtered_day_df = day_df
    /\ filtered_hour_df # <<>>
    /\ out.error = "none"

\* The columns load_data() adds to the daily and to the hourly table.
DerivedDay == {"season_label", "weathersit_label", "yr_label"}
DerivedHour == DerivedDay \cup {"is_weekend", "datetime"}

\* Row out is row raw with the columns of added put next to it: every
\* column of raw keeps its value.  idx is the row's index label, not a column.
Augmented(out_row, raw, added) ==
    /\ DOMAIN out_row = DOMAIN raw \cup added \cup {"idx"}
    /\ \A c \in DOMAIN raw : out_row[c] = raw[c]

\* C13: the enriched tables have as many rows as the files, in the files'
\* order, and each row differs from its row of the file only by the added
\* columns: the three labels, and for hourly rows is_weekend and datetime.
C13_EnrichKeepsRowsAndColumns ==
    cache.filled =>
        /\ Len(day_df) = Len(disk.day.rows)
        /\ Len(hour_df) = Len(disk.hour.rows)
        /\ \A i \in 1..Len(day_df) :
              /\ day_df[i].idx = i - 1
              /\ Augmented(day_df[i], disk.day.rows[i], DerivedDay)
        /\ \A i \in 1..Len(hour_df) :
              /\ hour_df[i].idx = i - 1
              /\ Augmented(hour_df[i], disk.hour.rows[i], DerivedHour)

\* A daily table of two rows and an hourly table of four were enriched, with
\* rows inside and outside the maps, and a date-time that is not the date.
C13_Witness ==
    /\ cache.filled
    /\ Len(day_df) = 2 /\ Len(hour_df) = 4
    /\ \E i \in 1..Len(day_df) : day_df[i].season_label = NaN
    /\ \E i \in 1..Len(hour_df) :
          /\ hour_df[i].weathersit_label = "Heavy Rain/Snow"
          /\ hour_df[i].datetime = 700 * 24 + 17
          /\ hour_df[i].dteday = 700

\* The filtered daily rows of weather label w.
RowsOfWeather(w) == SelectSeq(filtered_day_df, LAMBDA r: r.weathersit_label = w)

\* C14: the Weather impact view of a run has one group for each weather
\* label found in the filtered daily rows and no other group; a group's count
\* is the number of filtered rows of its label and its mean is the sum of
\* their cnt over that number.  (Rows without a label form no group.)
C14_WeatherImpactGroups ==
    (Filtered /\ "weather_analysis" \in out.done) =>
        LET wa == out.weather_analysis
        IN  /\ {wa[i].weathersit_label : i \in 1..Len(wa)}
                  = Unique(filtered_day_df, "weathersit_label") \ {NaN}
            /\ \A i, j \in 1..Len(wa) :
                  wa[i].weathersit_label = wa[j].weathersit_label => i = j
            /\ \A i \in 1..Len(wa) :
                  LET rows == RowsOfWeather(wa[i].weathersit_label)
                  IN  /\ wa[i].count = Len(rows)
                      /\ wa[i].count > 0
                      /\ wa[i].mean = Num(SumSeq(Column(rows, "cnt")), Len(rows))

\* The example of the specification: the one filtered row (Winter, Clear,
\* cnt = 100) gives the single group Clear with mean 100 and count 1.
C14_Witness ==
    /\ Filtered
    /\ Len(filtered_day_df) = 1
    /\ filtered_day_df[1].season_label = "Winter"
    /\ filtered_day_df[1].weathersit_label = "Clear"
    /\ filtered_day_df[1].cnt = 100
    /\ out.weather_analysis =
          <<[weathersit_label |-> "Clear", mean |-> Num(100, 1), count |-> 1]>>

\* The seasons of xs are distinct and follow Winter, Spring, Summer, Fall.
InSeasonOrder(xs) ==
    LET fixed == <<"Winter", "Spring", "Summer", "Fall">>
    IN  /\ Range(xs) \subseteq Range(fixed)
        /\ \A i, j \in 1..Len(xs) :
              i < j => Index(fixed, xs[i]) < Index(fixed, xs[j])

C16_IsWeekendMapping ==
    cache.filled =>
        \A i \in 1..Len(hour_df) :
            /\ hour_df[i].is_weekend \in {"Weekend", "Weekday"}
            /\ hour_df[i].is_weekend = "Weekend" <=> hour_df[i].weekday \in {0, 6}
            /\ hour_df[i].weekday = disk.hour.rows[i].weekday

\* Hourly rows of every weekday code 0..6 were loaded: code 0 and code 6
\* are "Weekend", code 3 and the other codes are "Weekday".
C16_Witness ==
    /\ cache.filled
    /\ {hour_df[i].weekday : i \in 1..Len(hour_df)} = 0..MaxWeekday
    /\ \E i \in 1..Len(hour_df) :
          hour_df[i].weekday = 0 /\ hour_df[i].is_weekend = "Weekend"
    /\ \E i \in 1..Len(hour_df) :
          hour_df[i].weekday = 3 /\ hour_df[i].is_weekend = "Weekday"
    /\ \E i \in 1..Len(hour_df) :
          hour_df[i].weekday = 6 /\ hour_df[i].is_weekend = "Weekend"
    /\ \A i \in 1..Len(hour_df) :
          hour_df[i].weekday \in 1..5 => hour_df[i].is_weekend = "Weekday"

\* C17: in a run of src/dashboard.py that gets to the Monthly Trends text
\* with both "2011" and "2012" selected, yearly_avg has a mean for both years
\* and the growth computation does not raise, whatever the season and
\* weather selections are.
C17_GrowthNeverRaises ==
    (Filtered /\ app = "dashboard" /\ "monthly_trends" \in out.done
       /\ {"2011", "2012"} \subseteq year_filter) =>
        /\ {"2011", "2012"} \subseteq YearlyAvgIndex(filtered_day_df)
        /\ out.at # "growth"
        /\ "growth" \in out.done

====
